---- MODULE Spec2Model ----
(***************************************************************************)
(* Paged memory simulators of SAVANA-Lab2.  Three programs share the same   *)
(* frame-table / job-table design:                                          *)
(*   "demand"  src/demand_paging_sim.cpp  demand paging with FIFO / LRU     *)
(*   "event"   src/event_simulator.cpp    event-driven allocation           *)
(*   "static"  src/vram_sim.cpp           one-shot random allocation        *)
(* The variable `variant` says which program a behaviour is a run of; it is *)
(* chosen in Init and never changes.                                        *)
(*                                                                         *)
(* Specifications:                                                         *)
(*   Spec         the three programs from the end of their set-up          *)
(*   DemandSpec   the demand-paging program alone                          *)
(*   EventSpec    the event program alone, with fairness of its loop       *)
(*   LongEventSpec  the same with a tick bound no run is cut short by      *)
(*   DuplicateSpec  the event program on a jobs.csv that repeats a job ID  *)
(*   DivideSpec   divideJobIntoPages applied to a Job object               *)
(*   ResolveSpec  resolveAddress applied to a Job and a frame table        *)
(***************************************************************************)
EXTENDS Integers, Sequences, FiniteSets, TLC

VARIABLES
    variant,              \* which of the three programs runs
    memoryFrames,         \* vector<PageFrame> memoryFrames, indices 0..n-1
    jobs,                 \* vector<Job>, keyed by the (unique) jobID
    currentTime,          \* demand: global clock; event: runSimulator's tick
    fifoQueue,            \* demand: queue<int> fifoQueue
    replacementAlgorithm, \* demand: 1 = fifo, 2 = lru
    pq,                   \* event: priority_queue<Event>, as a set of events
    waitingQueue,         \* event: queue<int> waitingQueue
    pc,                   \* position in runSimulator / simulateAllocation
    ev,                   \* event: the local `Event ev` last popped from pq
    retryLeft,            \* event: waitingCount - i of the retry loop
    simIdx,               \* static: index of the job simulateAllocation is at
    lruOrder,             \* history: occupied frames, least recently accessed first
    fifoRun,              \* history: the references made so far, while they are
                          \* pairwise distinct and FIFO has been the only policy
    installOrder          \* history: while every fault so far was served under
                          \* FIFO, the occupied frames, longest resident first

vars == <<variant, memoryFrames, jobs, currentTime, fifoQueue, replacementAlgorithm,
          pq, waitingQueue, pc, ev, retryLeft, simIdx, lruOrder, fifoRun,
          installOrder>>

(***************************************************************************)
(* Bounds of the model (the programs use 8 or 10 frames of 512 bytes, and a *)
(* tick bound of 200).                                                      *)
(***************************************************************************)
NumFramesDemand == 2
NumFramesEvent == 2
NumFramesStatic == 4
PageSize == 2
MaxTime == 4
MaxTimeUnits == 2
MaxArrival == 1
MaxDuration == 1
MaxJobSize == 5
MaxPageSize == 3
MaxCalls == 2

(***************************************************************************)
(* Small helpers for unordered_map / unordered_set / vector.                *)
(***************************************************************************)
EmptyMap == [x \in {} |-> 0]

MapPut(m, k, v) == [x \in (DOMAIN m) \cup {k} |-> IF x = k THEN v ELSE m[x]]

MapErase(m, k) == [x \in (DOMAIN m) \ {k} |-> m[x]]

RECURSIVE SeqRemove(_, _)
SeqRemove(s, x) ==
    IF s = <<>> THEN <<>>
    ELSE IF Head(s) = x THEN SeqRemove(Tail(s), x)
    ELSE <<Head(s)>> \o SeqRemove(Tail(s), x)

SeqSet(s) == {s[i] : i \in 1..Len(s)}

\* C++ integer division and remainder truncate toward zero.
CDiv(a, b) == IF a >= 0 THEN a \div b ELSE -((-a) \div b)

\* an offset that is the whole logical address (the remainder is not taken)
OffsetIsAddress(a, b) == a

CMod(a, b) == a - b * CDiv(a, b)

FrameIdx == DOMAIN memoryFrames

FreeCount(frames) == Cardinality({i \in DOMAIN frames : frames[i].isFree})

(***************************************************************************)
(* divideJobIntoPages: numPages = size / pageSize, one more when a          *)
(* remainder is left; the pages are 0..numPages-1.                          *)
(***************************************************************************)
\* a page count that drops the partly used last page
NumPagesFloor(jobSize, pageSize) == CDiv(jobSize, pageSize)

NumPagesOf(jobSize, pageSize) ==
    CDiv(jobSize, pageSize) + (IF CMod(jobSize, pageSize) > 0 THEN 1 ELSE 0)

PagesOf(jobSize, pageSize) ==
    [i \in 1..NumPagesOf(jobSize, pageSize) |-> i - 1]

FragmentationOf(jobSize, pageSize) ==
    IF CMod(jobSize, pageSize) > 0 THEN pageSize - CMod(jobSize, pageSize) ELSE 0

(***************************************************************************)
(* The demand-paging program (src/demand_paging_sim.cpp).                   *)
(***************************************************************************)
DemandJobIDs == {1, 2}

\* the job sizes read from jobs.csv: job 1 fills the memory by itself (its
\* last page partly used), job 2 has one partly used page
DemandJobSize == <<NumFramesDemand * PageSize - 1, PageSize - 1>>

DemandFrame(i, frameSize) ==
    [frameID |-> i, frameSize |-> frameSize, isFree |-> TRUE, jobID |-> -1,
     pageNumber |-> -1, accessTime |-> 0, modified |-> FALSE, referenced |-> FALSE]

DemandInitFrames(numFrames, frameSize) ==
    [i \in 0..(numFrames - 1) |-> DemandFrame(i, frameSize)]

DemandJob(id, jobSize, pageSize) ==
    [jobID |-> id, jobSize |-> jobSize, pageSize |-> pageSize,
     pages |-> PagesOf(jobSize, pageSize), loadedPages |-> {},
     pageTable |-> EmptyMap, pageFaults |-> 0]

\* a search that never finds a free frame
FindNoFreeFrame(frames) == -1

\* findFreeFrame: index of the first free frame, or -1
FindFreeFrame(frames) ==
    IF \E i \in DOMAIN frames : frames[i].isFree
    THEN CHOOSE i \in DOMAIN frames :
            frames[i].isFree /\ \A k \in DOMAIN frames : frames[k].isFree => i <= k
    ELSE -1

\* the scan of the hit paths: first occupied frame holding (jobID, pageNumber)
FrameHolding(frames, jobID, pageNumber) ==
    LET holds(i) == ~frames[i].isFree /\ frames[i].jobID = jobID
                    /\ frames[i].pageNumber = pageNumber
    IN  IF \E i \in DOMAIN frames : holds(i)
        THEN CHOOSE i \in DOMAIN frames :
                holds(i) /\ \A k \in DOMAIN frames : holds(k) => i <= k
        ELSE -1

FifoReplacementNewest(queue) ==
    IF queue = <<>> THEN [frame |-> 0, queue |-> queue]
    ELSE [frame |-> queue[Len(queue)], queue |-> SubSeq(queue, 1, Len(queue) - 1)]

\* a FIFO choice that is always frame 0
FifoReplacementFrameZero(queue) ==
    [frame |-> 0, queue |-> IF queue = <<>> THEN queue ELSE Tail(queue)]

\* a FIFO choice that leaves the head in the queue
FifoReplacementPeek(queue) ==
    [frame |-> IF queue = <<>> THEN 0 ELSE Head(queue), queue |-> queue]

\* fifoReplacement: the head of the queue, popped; frame 0 when it is empty
FifoReplacement(queue) ==
    IF queue = <<>> THEN [frame |-> 0, queue |-> queue]
    ELSE [frame |-> Head(queue), queue |-> Tail(queue)]

\* a scan that lets a later frame of the same age replace the candidate
RECURSIVE LruScanLastOnTies(_, _, _, _)
LruScanLastOnTies(frames, i, oldestTime, frameToReplace) ==
    IF i \notin DOMAIN frames THEN frameToReplace
    ELSE IF frames[i].accessTime <= oldestTime
         THEN LruScanLastOnTies(frames, i + 1, frames[i].accessTime, i)
         ELSE LruScanLastOnTies(frames, i + 1, oldestTime, frameToReplace)

\* lruReplacement: oldestTime starts at currentTime, frameToReplace at 0, and
\* a frame replaces the candidate only when its accessTime is strictly older
RECURSIVE LruScan(_, _, _, _)
LruScan(frames, i, oldestTime, frameToReplace) ==
    IF i \notin DOMAIN frames THEN frameToReplace
    ELSE IF frames[i].accessTime < oldestTime
         THEN LruScan(frames, i + 1, frames[i].accessTime, i)
         ELSE LruScan(frames, i + 1, oldestTime, frameToReplace)

LruReplacement(frames, time) == LruScan(frames, 0, time, 0)

\* an eviction that tells no job
EvictNothing(js, oldJobID, oldPageNumber) == js

\* an eviction that leaves the owner's page table entry behind
EvictLoadedOnly(js, oldJobID, oldPageNumber) ==
    IF oldJobID \in DOMAIN js
    THEN [js EXCEPT ![oldJobID].loadedPages = @ \ {oldPageNumber}]
    ELSE js

\* the victim's owner forgets the page (first job of allJobs with that ID)
EvictFromOwner(js, oldJobID, oldPageNumber) ==
    IF oldJobID \in DOMAIN js
    THEN [js EXCEPT ![oldJobID].loadedPages = @ \ {oldPageNumber},
                    ![oldJobID].pageTable = MapErase(@, oldPageNumber)]
    ELSE js

\* "load the new page": the six assignments to memoryFrames[frameIndex]
InstallPage(frames, f, jobID, pageNumber, time) ==
    [frames EXCEPT ![f].isFree = FALSE, ![f].jobID = jobID,
                   ![f].pageNumber = pageNumber, ![f].accessTime = time,
                   ![f].referenced = TRUE, ![f].modified = FALSE]

\* a hit that stamps every occupied frame
TouchAllFrames(frames, f, time) ==
    [i \in DOMAIN frames |->
        IF frames[i].isFree THEN frames[i]
        ELSE [frames[i] EXCEPT !.accessTime = time, !.referenced = TRUE]]

\* the hit path: accessTime := currentTime, referenced := true
TouchFrame(frames, f, time) ==
    IF f = -1 THEN frames
    ELSE [frames EXCEPT ![f].accessTime = time, ![f].referenced = TRUE]

RecordLoadedTableOnly(js, j, pageNumber, frameID) ==
    [js EXCEPT ![j].pageTable = MapPut(@, pageNumber, frameID)]

\* "update job's page table and loaded pages"
RecordLoaded(js, j, pageNumber, frameID) ==
    [js EXCEPT ![j].pageTable = MapPut(@, pageNumber, frameID),
               ![j].loadedPages = @ \cup {pageNumber}]

\* a victim choice by age under both policies, the queue losing its head
ChooseVictimByAge(frames, queue, alg, time) ==
    [frame |-> LruReplacement(frames, time),
     queue |-> IF queue = <<>> THEN queue ELSE Tail(queue)]

\* the victim choice of a fault that found no free frame
ChooseVictim(frames, queue, alg, time) ==
    IF alg = 1 THEN FifoReplacement(queue)
    ELSE [frame |-> LruReplacement(frames, time), queue |-> queue]

CountFaultAlsoOnOthers(js, j) == [i \in DOMAIN js |-> [js[i] EXCEPT !.pageFaults = @ + 1]]

\* "page fault occurred": job.pageFaults++
CountFault(js, j) == [js EXCEPT ![j].pageFaults = @ + 1]

(***************************************************************************)
(* loadPage on the state S = [frames, jobs, time, queue] under policy alg.  *)
(* The result adds hit (was it a page hit) and touched (the frame accessed, *)
(* -1 if none).                                                             *)
(***************************************************************************)
LoadPage(S, alg, j, pageNumber) ==
    IF pageNumber \in S.jobs[j].loadedPages
    THEN LET f == FrameHolding(S.frames, S.jobs[j].jobID, pageNumber)
         IN  [frames |-> TouchFrame(S.frames, f, S.time), jobs |-> S.jobs,
              time |-> S.time, queue |-> S.queue, hit |-> TRUE, touched |-> f]
    ELSE LET js0  == CountFault(S.jobs, j)
             time == S.time + 1
             free == FindFreeFrame(S.frames)
             pick == IF free # -1 THEN [frame |-> free, queue |-> S.queue]
                     ELSE ChooseVictim(S.frames, S.queue, alg, time)
             f    == pick.frame
             js1  == IF free = -1 /\ ~S.frames[f].isFree
                     THEN EvictFromOwner(js0, S.frames[f].jobID, S.frames[f].pageNumber)
                     ELSE js0
             fr   == InstallPage(S.frames, f, S.jobs[j].jobID, pageNumber, time)
             js2  == RecordLoaded(js1, j, pageNumber, fr[f].frameID)
         IN  [frames |-> fr, jobs |-> js2, time |-> time,
              queue |-> IF alg = 1 THEN Append(pick.queue, f) ELSE pick.queue,
              hit |-> FALSE, touched |-> f]

DemandState == [frames |-> memoryFrames, jobs |-> jobs, time |-> currentTime,
                queue |-> fifoQueue]

\* history: frame f becomes the most recently accessed one
Touched(order, f) == IF f = -1 THEN order ELSE Append(SeqRemove(order, f), f)

\* history: the run of references stays clean while FIFO is the policy and the
\* references are k+1 distinct pages, then the first page again
Referenced(run, alg, ref) ==
    LET k == NumFramesDemand
        n == Len(run.refs)
    IN  IF run.clean /\ alg = 1
           /\ \/ n <= k /\ ref \notin SeqSet(run.refs)
              \/ n = k + 1 /\ ref = run.refs[1]
        THEN [clean |-> TRUE, refs |-> Append(run.refs, ref)]
        ELSE [clean |-> FALSE, refs |-> <<>>]

\* history: a fault under FIFO makes frame f the most recently filled one;
\* a fault under LRU ends the record
Installed(h, alg, fault, f) ==
    IF ~fault THEN h
    ELSE IF h.fifoOnly /\ alg = 1
         THEN [fifoOnly |-> TRUE, order |-> Append(SeqRemove(h.order, f), f)]
         ELSE [fifoOnly |-> FALSE, order |-> <<>>]

EventVarsIdle == UNCHANGED <<pq, waitingQueue, pc, ev, retryLeft, simIdx>>

\* a direct call loadPage(job, p) for a page p of the job
LoadPageCall(j, p) ==
    /\ variant = "demand"
    /\ \E R \in {LoadPage(DemandState, replacementAlgorithm, j, p)} :
           /\ R.time <= MaxTime
           /\ memoryFrames' = R.frames
           /\ jobs' = R.jobs
           /\ currentTime' = R.time
           /\ fifoQueue' = R.queue
           /\ lruOrder' = Touched(lruOrder, R.touched)
           /\ installOrder' = Installed(installOrder, replacementAlgorithm,
                                        ~R.hit, R.touched)
    /\ fifoRun' = Referenced(fifoRun, replacementAlgorithm, <<j, p>>)
    /\ UNCHANGED <<variant, replacementAlgorithm>>
    /\ EventVarsIdle

\* pageNumber >= job.pages.size() compares as unsigned: a negative page
\* number is converted to a huge value
DemandOutOfBounds(job, pageNumber) ==
    pageNumber < 0 \/ pageNumber >= Len(job.pages)

\* job.pageTable[pageNumber]: operator[] inserts 0 for a missing key
MapIndex(m, k) == IF k \in DOMAIN m THEN m ELSE MapPut(m, k, 0)

\* resolveAddress of the demand-paging program
DemandResolve(S, alg, j, logicalAddress) ==
    LET job        == S.jobs[j]
        pageNumber == CDiv(logicalAddress, job.pageSize)
        offset     == CMod(logicalAddress, job.pageSize)
    IN  IF DemandOutOfBounds(job, pageNumber)
        THEN [frames |-> S.frames, jobs |-> S.jobs, time |-> S.time, queue |-> S.queue,
              touched |-> -1, accessed |-> FALSE, outcome |-> "oob", physical |-> 0,
              pageNumber |-> pageNumber, offset |-> offset, frameNumber |-> -1]
        ELSE LET R == IF pageNumber \notin job.loadedPages
                      THEN LoadPage(S, alg, j, pageNumber)
                      ELSE LET f == FrameHolding(S.frames, job.jobID, pageNumber)
                           IN  [frames |-> TouchFrame(S.frames, f, S.time),
                                jobs |-> S.jobs,
                                time |-> IF f = -1 THEN S.time ELSE S.time + 1,
                                queue |-> S.queue, hit |-> TRUE, touched |-> f]
                 js == [R.jobs EXCEPT ![j].pageTable = MapIndex(@, pageNumber)]
                 frameNumber == js[j].pageTable[pageNumber]
             IN  [frames |-> R.frames, jobs |-> js, time |-> R.time, queue |-> R.queue,
                  touched |-> R.touched, accessed |-> TRUE, outcome |-> "resolved",
                  physical |-> frameNumber * job.pageSize + offset,
                  pageNumber |-> pageNumber, offset |-> offset,
                  frameNumber |-> frameNumber]

\* the logical addresses tried: -1, the first byte of every page, the
\* last byte of the job, and the bytes behind it up to the end of its last page
DemandAddrs(j) ==
    {-1} \cup {p * PageSize : p \in SeqSet(jobs[j].pages)}
    \cup (jobs[j].jobSize - 1) .. (Len(jobs[j].pages) * PageSize)

ResolveAddressDemand(j, addr) ==
    /\ variant = "demand"
    /\ \E R \in {DemandResolve(DemandState, replacementAlgorithm, j, addr)} :
           /\ R.time <= MaxTime
           /\ memoryFrames' = R.frames
           /\ jobs' = R.jobs
           /\ currentTime' = R.time
           /\ fifoQueue' = R.queue
           /\ lruOrder' = Touched(lruOrder, R.touched)
           /\ installOrder' = Installed(installOrder, replacementAlgorithm,
                                        R.jobs[j].pageFaults # jobs[j].pageFaults,
                                        R.touched)
           /\ fifoRun' = IF R.accessed
                         THEN Referenced(fifoRun, replacementAlgorithm,
                                         <<j, CDiv(addr, jobs[j].pageSize)>>)
                         ELSE fifoRun
    /\ UNCHANGED <<variant, replacementAlgorithm>>
    /\ EventVarsIdle

\* a switch that starts the new policy from scratch: the FIFO queue is
\* emptied and the access times are reset
SetReplacementAlgorithmReset(choice) ==
    /\ variant = "demand"
    /\ replacementAlgorithm' = IF choice \in {1, 2} THEN choice ELSE 1
    /\ fifoQueue' = IF replacementAlgorithm' # replacementAlgorithm THEN <<>>
                     ELSE fifoQueue
    /\ memoryFrames' = IF replacementAlgorithm' # replacementAlgorithm
                        THEN [i \in DOMAIN memoryFrames |->
                                [memoryFrames[i] EXCEPT !.accessTime = 0]]
                        ELSE memoryFrames
    /\ fifoRun' = [clean |-> FALSE, refs |-> <<>>]
    /\ UNCHANGED <<variant, jobs, currentTime, lruOrder, installOrder>>
    /\ EventVarsIdle

\* setReplacementAlgorithm: 1 and 2 are kept, anything else defaults to 1
SetReplacementAlgorithm(choice) ==
    /\ variant = "demand"
    /\ replacementAlgorithm' = IF choice \in {1, 2} THEN choice ELSE 1
    /\ fifoRun' = IF replacementAlgorithm' = 1 THEN fifoRun
                  ELSE [clean |-> FALSE, refs |-> <<>>]
    /\ UNCHANGED <<variant, memoryFrames, jobs, currentTime, fifoQueue, lruOrder,
                   installOrder>>
    /\ EventVarsIdle

NoEvent == [time |-> -1, type |-> -1, jobID |-> 0]

\* main: initFrames(n, 512), then the jobs are imported and divided into pages
InitDemand ==
    /\ variant = "demand"
    /\ memoryFrames = DemandInitFrames(NumFramesDemand, PageSize)
    /\ jobs = [j \in DemandJobIDs |-> DemandJob(j, DemandJobSize[j], PageSize)]
    /\ currentTime = 0
    /\ fifoQueue = <<>>
    /\ replacementAlgorithm = 1
    /\ pq = {} /\ waitingQueue = <<>> /\ pc = "menu" /\ ev = NoEvent
    /\ retryLeft = 0 /\ simIdx = 0
    /\ lruOrder = <<>>
    /\ fifoRun = [clean |-> TRUE, refs |-> <<>>]
    /\ installOrder = [fifoOnly |-> TRUE, order |-> <<>>]

NextDemand ==
    \/ \E j \in DemandJobIDs : \E p \in SeqSet(jobs[j].pages) : LoadPageCall(j, p)
    \/ \E j \in DemandJobIDs : \E a \in DemandAddrs(j) : ResolveAddressDemand(j, a)
    \/ \E c \in {1, 2, 3} : SetReplacementAlgorithm(c)

(***************************************************************************)
(* The event-driven program (src/event_simulator.cpp).                      *)
(***************************************************************************)
ARRIVAL == 0

COMPLETE == 1

EventFrame(i, frameSize) ==
    [frameID |-> i, frameSize |-> frameSize, isFree |-> TRUE, jobID |-> -1,
     pageNumber |-> -1]

EventInitFrames(numFrames, frameSize) ==
    [i \in 0..(numFrames - 1) |-> EventFrame(i, frameSize)]

\* a Job after importJobsFromFile: divideJobIntoPages has run, startTime = -1
EventJob(id, jobSize, pageSize, arrivalTime, duration) ==
    [jobID |-> id, jobSize |-> jobSize, pageSize |-> pageSize,
     internalFragmentation |-> FragmentationOf(jobSize, pageSize),
     pages |-> PagesOf(jobSize, pageSize), pageTable |-> EmptyMap,
     arrivalTime |-> arrivalTime, duration |-> duration, startTime |-> -1]

EventLessTypeReversed(a, b) ==
    IF a.time # b.time THEN a.time > b.time ELSE a.type < b.type

\* Event::operator<  (a < b: a comes out of the priority queue after b)
EventLess(a, b) ==
    IF a.time # b.time THEN a.time > b.time ELSE a.type > b.type

\* pq.top(): an event no other event is ahead of (the heap may return any of
\* several equivalent ones)
PqTop(q) == {e \in q : \A o \in q : ~EventLess(e, o)}

AnyChoices(n, F) == [1..n -> F]

\* the ways freeIndices can come out of shuffle, cut to the first n entries:
\* the injections of 1..n into the free frames
Injections(n, F) ==
    {f \in [1..n -> F] : \A a, b \in 1..n : a # b => f[a] # f[b]}

FreeIndices(frames) == {i \in DOMAIN frames : frames[i].isFree}

RECURSIVE AssignLoop(_, _, _, _, _)
AssignLoop(frames, table, job, choice, i) ==
    IF i > Len(job.pages) THEN [ok |-> TRUE, frames |-> frames, pageTable |-> table]
    ELSE LET frameIndex == choice[i]
             fr == [frames EXCEPT ![frameIndex].isFree = FALSE,
                                  ![frameIndex].jobID = job.jobID,
                                  ![frameIndex].pageNumber = job.pages[i]]
         IN  AssignLoop(fr, MapPut(table, job.pages[i], fr[frameIndex].frameID),
                        job, choice, i + 1)

\* a partial allocation: the pages that fit are placed before the shortage
\* is noticed
EventAssignPartial(frames, job) ==
    IF Len(job.pages) > Cardinality(FreeIndices(frames))
    THEN LET n == Cardinality(FreeIndices(frames))
             part == [job EXCEPT !.pages = SubSeq(job.pages, 1, n)]
         IN  {[AssignLoop(frames, job.pageTable, part, c, 1) EXCEPT !.ok = FALSE] :
                c \in Injections(n, FreeIndices(frames))}
    ELSE {AssignLoop(frames, job.pageTable, job, c, 1) :
            c \in Injections(Len(job.pages), FreeIndices(frames))}

\* assignPageFrames of the event program: every result the shuffle allows
EventAssignPageFrames(frames, job) ==
    IF Len(job.pages) > Cardinality(FreeIndices(frames))
    THEN {[ok |-> FALSE, frames |-> frames, pageTable |-> job.pageTable]}
    ELSE {AssignLoop(frames, job.pageTable, job, c, 1) :
            c \in Injections(Len(job.pages), FreeIndices(frames))}

\* a release that frees every occupied frame, whoever owns it
FreeAllFrames(frames, jobID) ==
    [i \in DOMAIN frames |->
        IF ~frames[i].isFree
        THEN [frames[i] EXCEPT !.isFree = TRUE, !.jobID = -1, !.pageNumber = -1]
        ELSE frames[i]]

\* a release that stops at the first frame of the job
FreeFirstFrameOnly(frames, jobID) ==
    [i \in DOMAIN frames |->
        IF /\ ~frames[i].isFree /\ frames[i].jobID = jobID
           /\ \A k \in DOMAIN frames :
                 (~frames[k].isFree /\ frames[k].jobID = jobID) => i <= k
        THEN [frames[i] EXCEPT !.isFree = TRUE, !.jobID = -1, !.pageNumber = -1]
        ELSE frames[i]]

FreeJobFrames(frames, jobID) ==
    [i \in DOMAIN frames |->
        IF ~frames[i].isFree /\ frames[i].jobID = jobID
        THEN [frames[i] EXCEPT !.isFree = TRUE, !.jobID = -1, !.pageNumber = -1]
        ELSE frames[i]]

DemandVarsIdle ==
    UNCHANGED <<fifoQueue, replacementAlgorithm, lruOrder, fifoRun, installOrder>>

\* events taken only a tick after they are due
DueEventsLate == {e \in PqTop(pq) : e.time < currentTime}

\* "!pq.empty() && pq.top().time <= currentTime"
DueEvents == {e \in PqTop(pq) : e.time <= currentTime}

\* an allocation that succeeded: startTime, and the Completion event
Allocated(js, j, R, now) ==
    [js EXCEPT ![j].pageTable = R.pageTable, ![j].startTime = now]

CompletionOneLate(job, now) ==
    [time |-> now + job.duration + 1, type |-> COMPLETE, jobID |-> job.jobID]

CompletionOf(job, now) ==
    [time |-> now + job.duration, type |-> COMPLETE, jobID |-> job.jobID]

\* "jobMap[j.jobID] = &j" over the job list in order: an ID names the last
\* job that carries it
JobMap(js, id) ==
    CHOOSE i \in DOMAIN js :
        /\ js[i].jobID = id
        /\ \A k \in DOMAIN js : js[k].jobID = id => k <= i

\* inner loop of runSimulator, ev.type == ARRIVAL
ProcessArrival ==
    /\ variant = "event" /\ pc = "events"
    /\ \E e \in DueEvents :
        /\ e.type = ARRIVAL
        /\ ev' = e
        /\ \E R \in EventAssignPageFrames(memoryFrames, jobs[JobMap(jobs, e.jobID)]) :
            IF ~R.ok
            THEN /\ waitingQueue' = Append(waitingQueue, e.jobID)
                 /\ pq' = pq \ {e}
                 /\ memoryFrames' = R.frames
                 /\ jobs' = [jobs EXCEPT ![JobMap(jobs, e.jobID)].pageTable = R.pageTable]
            ELSE /\ memoryFrames' = R.frames
                 /\ jobs' = Allocated(jobs, JobMap(jobs, e.jobID), R, currentTime)
                 /\ pq' = (pq \ {e}) \cup {CompletionOf(jobs[JobMap(jobs, e.jobID)], currentTime)}
                 /\ UNCHANGED waitingQueue
    /\ UNCHANGED <<variant, currentTime, pc, retryLeft, simIdx>>
    /\ DemandVarsIdle

\* a Completion that frees the frames and leaves the waiting jobs alone
ProcessCompleteNoRetry ==
    /\ variant = "event" /\ pc = "events"
    /\ \E e \in DueEvents :
        /\ e.type = COMPLETE
        /\ ev' = e
        /\ pq' = pq \ {e}
        /\ memoryFrames' = FreeJobFrames(memoryFrames, e.jobID)
        /\ jobs' = [jobs EXCEPT ![JobMap(jobs, e.jobID)].pageTable = EmptyMap]
    /\ UNCHANGED <<variant, currentTime, waitingQueue, simIdx, pc, retryLeft>>
    /\ DemandVarsIdle

\* inner loop of runSimulator, ev.type == COMPLETE, up to the retry loop
ProcessComplete ==
    /\ variant = "event" /\ pc = "events"
    /\ \E e \in DueEvents :
        /\ e.type = COMPLETE
        /\ ev' = e
        /\ pq' = pq \ {e}
        /\ memoryFrames' = FreeJobFrames(memoryFrames, e.jobID)
        /\ jobs' = [jobs EXCEPT ![JobMap(jobs, e.jobID)].pageTable = EmptyMap]
    /\ retryLeft' = Len(waitingQueue)
    /\ pc' = IF Len(waitingQueue) > 0 THEN "retry" ELSE "events"
    /\ UNCHANGED <<variant, currentTime, waitingQueue, simIdx>>
    /\ DemandVarsIdle

\* a retry loop that runs until the waiting queue is empty
RetryLeftUntilEmpty(left) == Len(waitingQueue')

\* "for (int i = 0; i < waitingCount; ++i)": the iterations still to run
RetryLeftAfter(left) == left - 1

\* a job that is looked at but left at the front of the queue
RequeueAtFront(queue, jid) == <<jid>> \o Tail(queue)

\* "waitingQueue.front(); waitingQueue.pop(); ... waitingQueue.push(jid)"
Requeue(queue, jid) == Append(Tail(queue), jid)

\* one iteration of "attempt to allocate waiting jobs in FIFO order"
RetryWaiting ==
    /\ variant = "event" /\ pc = "retry"
    /\ LET jid == Head(waitingQueue)
           wj  == JobMap(jobs, jid)
       IN  \E R \in EventAssignPageFrames(memoryFrames, jobs[wj]) :
            IF ~R.ok
            THEN /\ waitingQueue' = Requeue(waitingQueue, jid)
                 /\ memoryFrames' = R.frames
                 /\ jobs' = [jobs EXCEPT ![wj].pageTable = R.pageTable]
                 /\ UNCHANGED pq
            ELSE /\ waitingQueue' = Tail(waitingQueue)
                 /\ memoryFrames' = R.frames
                 /\ jobs' = Allocated(jobs, wj, R, currentTime)
                 /\ pq' = pq \cup {CompletionOf(jobs[wj], currentTime)}
    /\ retryLeft' = RetryLeftAfter(retryLeft)
    /\ pc' = IF retryLeft' > 0 THEN "retry" ELSE "events"
    /\ UNCHANGED <<variant, currentTime, ev, simIdx>>
    /\ DemandVarsIdle

\* no event is due: ++currentTime, the tick bound, and the outer loop test
TickBounded(maxTimeUnits) ==
    /\ variant = "event" /\ pc = "events"
    /\ DueEvents = {}
    /\ currentTime' = currentTime + 1
    /\ pc' = IF currentTime' > maxTimeUnits THEN "done"
             ELSE IF pq = {} /\ waitingQueue = <<>> THEN "done"
             ELSE "events"
    /\ UNCHANGED <<variant, memoryFrames, jobs, pq, waitingQueue, ev, retryLeft, simIdx>>
    /\ DemandVarsIdle

\* runSimulator(jobs, maxTimeUnits) as the programs under check call it
Tick == TickBounded(MaxTimeUnits)

\* the job sets imported from jobs.csv: job 1 leaves one frame free, job 2
\* fills the memory, job 3 (when present) has one page or does not fit at all;
\* or job 1 fills the memory and neither of the other two fits at all
EventJobPages ==
    {<<NumFramesEvent - 1, NumFramesEvent>>,
     <<NumFramesEvent - 1, NumFramesEvent, 1>>,
     <<NumFramesEvent - 1, NumFramesEvent, NumFramesEvent + 1>>,
     <<NumFramesEvent, NumFramesEvent + 1, NumFramesEvent + 1>>}

\* main, up to the first test of runSimulator's loop
InitEvent ==
    /\ variant = "event"
    /\ memoryFrames = EventInitFrames(NumFramesEvent, PageSize)
    /\ \E np \in EventJobPages :
       \E arr \in [DOMAIN np -> 0..MaxArrival] :
       \E dur \in [DOMAIN np -> 0..MaxDuration] :
          /\ jobs = [j \in DOMAIN np |->
                        EventJob(j, np[j] * PageSize - 1, PageSize, arr[j], dur[j])]
          /\ pq = {[time |-> arr[j], type |-> ARRIVAL, jobID |-> j] : j \in DOMAIN np}
    /\ waitingQueue = <<>>
    /\ currentTime = 0
    /\ pc = "events"
    /\ ev = NoEvent
    /\ retryLeft = 0 /\ simIdx = 0
    /\ fifoQueue = <<>> /\ replacementAlgorithm = 1
    /\ lruOrder = <<>> /\ fifoRun = [clean |-> FALSE, refs |-> <<>>]
    /\ installOrder = [fifoOnly |-> FALSE, order |-> <<>>]

\* main with a jobs.csv in which two lines carry the job ID 1 (the importer
\* takes every line that parses): the first line arrives at 0, the second
\* at 1, and job 2, which needs the whole memory, arrives at 1.  The job
\* named by ID 1 is allocated at tick 0 and no sooner than tick 1 again, so
\* its two Completion events are never the same event.
InitDuplicateIDs ==
    /\ variant = "event"
    /\ memoryFrames = EventInitFrames(NumFramesEvent, PageSize)
    /\ \E np \in {1, NumFramesEvent} :
       \E dur \in [1..3 -> 0..MaxDuration] :
          /\ jobs = <<EventJob(1, NumFramesEvent * PageSize, PageSize, 0, dur[1]),
                      EventJob(1, np * PageSize - 1, PageSize, 1, dur[2]),
                      EventJob(2, NumFramesEvent * PageSize, PageSize, 1, dur[3])>>
          /\ pq = {[time |-> jobs[i].arrivalTime, type |-> ARRIVAL,
                    jobID |-> jobs[i].jobID] : i \in 1..3}
    /\ waitingQueue = <<>>
    /\ currentTime = 0
    /\ pc = "events"
    /\ ev = NoEvent
    /\ retryLeft = 0 /\ simIdx = 0
    /\ fifoQueue = <<>> /\ replacementAlgorithm = 1
    /\ lruOrder = <<>> /\ fifoRun = [clean |-> FALSE, refs |-> <<>>]
    /\ installOrder = [fifoOnly |-> FALSE, order |-> <<>>]

\* resolveAddress of the event program; it only reads
EventResolve(frames, job, logicalAddress) ==
    LET pageNumber == CDiv(logicalAddress, job.pageSize)
        offset     == CMod(logicalAddress, job.pageSize)
        none(o)    == [outcome |-> o, pageNumber |-> -1, offset |-> -1,
                       frameNumber |-> -1, physical |-> -1]
    IN  IF job.pageSize <= 0 THEN none("invalid page size")
        ELSE IF logicalAddress < 0 \/ logicalAddress >= job.jobSize THEN none("oob")
        ELSE IF pageNumber \notin DOMAIN job.pageTable THEN none("not loaded")
        ELSE LET frameNumber == job.pageTable[pageNumber]
             IN  IF frameNumber < 0 \/ frameNumber >= Cardinality(DOMAIN frames)
                 THEN none("invalid frame")
                 ELSE IF offset >= frames[frameNumber].frameSize
                 THEN none("invalid offset")
                 ELSE [outcome |-> "resolved", pageNumber |-> pageNumber,
                       offset |-> offset, frameNumber |-> frameNumber,
                       physical |-> frameNumber * frames[frameNumber].frameSize + offset]

\* main's "Resolve logical address demo", after runSimulator has returned;
\* find_if takes the first job with the ID that was typed
ResolveAddressEvent(j, addr) ==
    /\ variant = "event" /\ pc = "done"
    /\ \A k \in DOMAIN jobs : jobs[k].jobID = jobs[j].jobID => j <= k
    /\ EventResolve(memoryFrames, jobs[j], addr).outcome # "invalid page size"
    /\ UNCHANGED vars

NextEvent ==
    \/ ProcessArrival
    \/ ProcessComplete
    \/ RetryWaiting
    \/ Tick
    \/ \E j \in DOMAIN jobs : \E a \in {-1, 0, jobs[j].jobSize} :
          ResolveAddressEvent(j, a)

(***************************************************************************)
(* The static program (src/vram_sim.cpp).                                   *)
(***************************************************************************)
StaticJobIDs == {1, 2}

\* the job sizes read from jobs.csv: two pages (the last one partly used)
\* and exactly one page
StaticJobSize == <<2 * PageSize - 1, PageSize>>

\* initFrames of the static program: {i, frameSize, true, -1, -1}
StaticInitFrames(numFrames, frameSize) ==
    [i \in 0..(numFrames - 1) |->
        [frameID |-> i, frameSize |-> frameSize, isFree |-> TRUE, jobID |-> -1,
         pageNumber |-> -1]]

StaticJob(id, jobSize, pageSize) ==
    [jobID |-> id, jobSize |-> jobSize, pageSize |-> pageSize,
     internalFragmentation |-> FragmentationOf(jobSize, pageSize),
     pages |-> PagesOf(jobSize, pageSize), pageTable |-> EmptyMap]

\* assignPageFrames of the static program: each page takes a frame drawn at
\* random until a free one comes up, so every injection into the free frames
\* can result
StaticAssignPageFrames(frames, job) ==
    IF Len(job.pages) > FreeCount(frames)
    THEN {[ok |-> FALSE, frames |-> frames, pageTable |-> job.pageTable]}
    ELSE {AssignLoop(frames, job.pageTable, job, c, 1) :
            c \in Injections(Len(job.pages), FreeIndices(frames))}

\* simulateAllocation: one iteration of its loop over the jobs (menu choice 1
\* starts it at the first job)
SimulateAllocationStep ==
    /\ variant = "static"
    /\ LET i == IF pc = "menu" THEN 1 ELSE simIdx
       IN  /\ \E R \in StaticAssignPageFrames(memoryFrames, jobs[i]) :
                /\ memoryFrames' = R.frames
                /\ jobs' = [jobs EXCEPT ![i].pageTable = R.pageTable]
           /\ IF i + 1 \in DOMAIN jobs
              THEN pc' = "alloc" /\ simIdx' = i + 1
              ELSE pc' = "menu" /\ simIdx' = 0
    /\ UNCHANGED <<variant, currentTime, pq, waitingQueue, ev, retryLeft>>
    /\ DemandVarsIdle

\* resolveAddress of the static program; it only reads
StaticResolve(job, logicalAddress) ==
    LET pageNumber == CDiv(logicalAddress, job.pageSize)
        offset     == CMod(logicalAddress, job.pageSize)
    IN  IF DemandOutOfBounds(job, pageNumber)
        THEN [outcome |-> "oob", physical |-> -1]
        ELSE IF pageNumber \notin DOMAIN job.pageTable
        THEN [outcome |-> "not loaded", physical |-> -1]
        ELSE [outcome |-> "resolved",
              physical |-> job.pageTable[pageNumber] * job.pageSize + offset]

\* menu choice 3
ResolveAddressStatic(j, addr) ==
    /\ variant = "static" /\ pc = "menu"
    /\ StaticResolve(jobs[j], addr).outcome \in {"oob", "not loaded", "resolved"}
    /\ UNCHANGED vars

\* main: initFrames(n, 512), then the jobs are imported and divided into pages
InitStatic ==
    /\ variant = "static"
    /\ memoryFrames = StaticInitFrames(NumFramesStatic, PageSize)
    /\ jobs = [j \in StaticJobIDs |-> StaticJob(j, StaticJobSize[j], PageSize)]
    /\ currentTime = 0
    /\ pq = {} /\ waitingQueue = <<>> /\ pc = "menu" /\ ev = NoEvent
    /\ retryLeft = 0 /\ simIdx = 0
    /\ fifoQueue = <<>> /\ replacementAlgorithm = 1
    /\ lruOrder = <<>> /\ fifoRun = [clean |-> FALSE, refs |-> <<>>]
    /\ installOrder = [fifoOnly |-> FALSE, order |-> <<>>]

NextStatic ==
    \/ SimulateAllocationStep
    \/ \E j \in StaticJobIDs : \E a \in {-1, 0, jobs[j].jobSize} :
          ResolveAddressStatic(j, a)

(***************************************************************************)
(* divideJobIntoPages as a function on a Job object (all three programs).  *)
(* jobs[1] is the Job the calls are made on, jobs[0] the same Job as it was *)
(* before the latest call; simIdx counts the calls.                         *)
(***************************************************************************)
\* event program: the page list and the page table are cleared, then a
\* non-positive page size returns
EventDivideJobIntoPages(job) ==
    LET cleared == [job EXCEPT !.pages = <<>>, !.pageTable = EmptyMap]
    IN  IF job.pageSize <= 0 THEN cleared
        ELSE [cleared EXCEPT
                !.internalFragmentation = FragmentationOf(job.jobSize, job.pageSize),
                !.pages = PagesOf(job.jobSize, job.pageSize)]

\* static program: the pages are pushed behind those the Job already has
StaticDivideJobIntoPages(job) ==
    [job EXCEPT
        !.internalFragmentation = FragmentationOf(job.jobSize, job.pageSize),
        !.pages = @ \o PagesOf(job.jobSize, job.pageSize)]

\* demand program: as the static one, no internalFragmentation, pageFaults = 0
DemandDivideJobIntoPages(job) ==
    [job EXCEPT !.pages = @ \o PagesOf(job.jobSize, job.pageSize),
                !.pageFaults = 0]

\* the page sizes a caller passes: the event program guards against
\* non-positive ones; the other two divide by the page size unguarded and
\* are only given positive ones
DividePageSizes(v) ==
    IF v = "event" THEN {-1, 0} \cup 1..MaxPageSize ELSE 1..MaxPageSize

\* the Job objects handed to divideJobIntoPages: newly built by
\* importJobsFromFile (no pages, empty page table; internalFragmentation is
\* 0 in the event program and not initialised in the static one), or an
\* object that was divided and loaded before.  The record carries the
\* fields of all three Job structs; each program touches only its own.
DivideJobs(v) ==
    {[jobID |-> 1, jobSize |-> size, pageSize |-> ps, pages |-> old,
      pageTable |-> [q \in SeqSet(old) |-> q],
      loadedPages |-> SeqSet(old), pageFaults |-> 0,
      internalFragmentation |-> frag,
      arrivalTime |-> 0, duration |-> 0, startTime |-> -1] :
        size \in 0..MaxJobSize, ps \in DividePageSizes(v),
        old \in {<<>>, <<0, 1>>},
        frag \in IF v = "static" THEN {0, 1} ELSE {0}}

InitDivide ==
    /\ variant \in {"demand", "event", "static"}
    /\ \E job \in DivideJobs(variant) : jobs = [k \in {0, 1} |-> job]
    /\ pc = "import" /\ simIdx = 0
    /\ memoryFrames = <<>> /\ currentTime = 0
    /\ pq = {} /\ waitingQueue = <<>> /\ ev = NoEvent /\ retryLeft = 0
    /\ fifoQueue = <<>> /\ replacementAlgorithm = 1
    /\ lruOrder = <<>> /\ fifoRun = [clean |-> FALSE, refs |-> <<>>]
    /\ installOrder = [fifoOnly |-> FALSE, order |-> <<>>]

DivideCall(v, result) ==
    /\ variant = v /\ pc = "import" /\ simIdx < MaxCalls
    /\ jobs' = [k \in {0, 1} |-> IF k = 0 THEN jobs[1] ELSE result]
    /\ simIdx' = simIdx + 1
    /\ UNCHANGED <<variant, memoryFrames, currentTime, pq, waitingQueue, pc, ev,
                   retryLeft>>
    /\ DemandVarsIdle

EventDivideCall == DivideCall("event", EventDivideJobIntoPages(jobs[1]))

StaticDivideCall == DivideCall("static", StaticDivideJobIntoPages(jobs[1]))

DemandDivideCall == DivideCall("demand", DemandDivideJobIntoPages(jobs[1]))

NextDivide == EventDivideCall \/ StaticDivideCall \/ DemandDivideCall

DivideSpec == InitDivide /\ [][NextDivide]_vars

(***************************************************************************)
(* resolveAddress as a function of the Job and the frame table handed to    *)
(* it (all three programs): the frame size given to initFrames may be       *)
(* smaller than the page size given to importJobsFromFile, and a page table *)
(* entry may name a frame the table does not have.                          *)
(***************************************************************************)
ResolveFrames(v, frameSize) ==
    IF v = "demand" THEN DemandInitFrames(NumFramesDemand, frameSize)
    ELSE IF v = "event" THEN EventInitFrames(NumFramesDemand, frameSize)
    ELSE StaticInitFrames(NumFramesDemand, frameSize)

\* a Job of two full pages
ResolveJob(v) ==
    IF v = "demand" THEN DemandJob(1, 2 * PageSize, PageSize)
    ELSE IF v = "event" THEN EventJob(1, 2 * PageSize, PageSize, 0, 0)
    ELSE StaticJob(1, 2 * PageSize, PageSize)

\* the page tables tried: page 0 unmapped, or mapped below the frame table,
\* to frame 0, or behind the frame table; page 1 unmapped, or mapped to
\* frame 1, or behind the frame table
ResolveTables ==
    {[q \in D |-> IF q = 0 THEN f0 ELSE f1] :
        D \in SUBSET {0, 1}, f0 \in {-1, 0, NumFramesDemand},
        f1 \in {1, NumFramesDemand}}

\* the frames the page table names hold the pages
Occupied(frames, table) ==
    [i \in DOMAIN frames |->
        IF \E q \in DOMAIN table : table[q] = i
        THEN [frames[i] EXCEPT !.isFree = FALSE, !.jobID = 1,
                               !.pageNumber = CHOOSE q \in DOMAIN table : table[q] = i]
        ELSE frames[i]]

InitResolve ==
    /\ variant \in {"demand", "event", "static"}
    /\ \E frameSize \in {PageSize - 1, PageSize} : \E table \in ResolveTables :
          /\ memoryFrames = Occupied(ResolveFrames(variant, frameSize), table)
          /\ jobs = <<IF variant = "demand"
                       THEN [ResolveJob(variant) EXCEPT !.pageTable = table,
                                                         !.loadedPages = DOMAIN table]
                       ELSE [ResolveJob(variant) EXCEPT !.pageTable = table]>>
          /\ fifoQueue = IF variant = "demand"
                         THEN SelectSeq(<<0, 1>>, LAMBDA i : \E q \in DOMAIN table :
                                                                table[q] = i)
                         ELSE <<>>
    /\ replacementAlgorithm \in (IF variant = "demand" THEN {1, 2} ELSE {1})
    /\ pc = (IF variant = "event" THEN "done" ELSE "menu")
    /\ currentTime = 0 /\ simIdx = 0
    /\ pq = {} /\ waitingQueue = <<>> /\ ev = NoEvent /\ retryLeft = 0
    /\ lruOrder = <<>> /\ fifoRun = [clean |-> FALSE, refs |-> <<>>]
    /\ installOrder = [fifoOnly |-> FALSE, order |-> <<>>]

NextResolve ==
    \/ \E addr \in 0..(jobs[1].jobSize - 1) : ResolveAddressDemand(1, addr)
    \/ \E addr \in 0..(jobs[1].jobSize - 1) : ResolveAddressEvent(1, addr)
    \/ \E addr \in 0..(jobs[1].jobSize - 1) : ResolveAddressStatic(1, addr)

ResolveSpec == InitResolve /\ [][NextResolve]_vars

\* the steps of runSimulator's loops; the program is sequential, so a step
\* that can be taken is taken
EventLoop == ProcessArrival \/ ProcessComplete \/ RetryWaiting \/ Tick

\* the positions of the job list, over all imported job sets
JobSlots == UNION {DOMAIN np : np \in EventJobPages}

\* a tick bound no run is cut short by: every job has arrived by MaxArrival
\* and the jobs run at worst one after the other
LongTimeUnits == MaxArrival + Cardinality(JobSlots) * MaxDuration

\* a tick of runSimulator(jobs, maxTimeUnits) with that bound
TickLong == TickBounded(LongTimeUnits)

NextEventLong ==
    \/ ProcessArrival
    \/ ProcessComplete
    \/ RetryWaiting
    \/ TickLong
    \/ \E j \in DOMAIN jobs : \E a \in {-1, 0, jobs[j].jobSize} :
          ResolveAddressEvent(j, a)

EventLoopLong == ProcessArrival \/ ProcessComplete \/ RetryWaiting \/ TickLong

\* the event program with a tick bound large enough for every job
LongEventSpec == InitEvent /\ [][NextEventLong]_vars /\ WF_vars(EventLoopLong)

\* the event program alone, running to the end of runSimulator
EventSpec == InitEvent /\ [][NextEvent]_vars /\ WF_vars(EventLoop)

\* the event program on a jobs.csv that repeats a job ID
DuplicateSpec == InitDuplicateIDs /\ [][NextEvent]_vars

\* the demand-paging program alone
DemandSpec == InitDemand /\ [][NextDemand]_vars

Init == InitDemand \/ InitEvent \/ InitStatic

Next == NextDemand \/ NextEvent \/ NextStatic

Spec == Init /\ [][Next]_vars

(***************************************************************************)
(* Properties.                                                              *)
(***************************************************************************)
Demand == variant = "demand"

TotalFaults ==
    LET RECURSIVE Sum(_)
        Sum(J) == IF J = {} THEN 0
                  ELSE LET j == CHOOSE x \in J : TRUE
                       IN  jobs[j].pageFaults + Sum(J \ {j})
    IN  Sum(DOMAIN jobs)

\* the (jobID, pageNumber) pair a frame holds
Pair(frames, f) == <<frames[f].jobID, frames[f].pageNumber>>

\* logical addresses around a job's address space, two pages to either side
ProbeAddrs(job) == (0 - 2 * PageSize) .. (job.jobSize + 2 * PageSize)

\* C1: under LRU, a fault that finds no free frame evicts the page whose most
\* recent access (install or hit) is the oldest: the frame whose pair changes
\* is the least recently accessed one.  With 2 frames and [A,B,A,C] the fault
\* on C evicts B.
C1_LruEvictsLeastRecentlyUsed ==
    [][(Demand /\ replacementAlgorithm = 2 /\ FindFreeFrame(memoryFrames) = -1)
        => \A f \in FrameIdx :
              Pair(memoryFrames', f) # Pair(memoryFrames, f) => f = Head(lruOrder)]_vars

\* C2: resolveAddress of an address below 0 or at or past jobSize reports
\* out-of-bounds and changes nothing, in each of the three programs.
C2_OutOfBoundsChangesNothing ==
    \A j \in DOMAIN jobs : \A a \in ProbeAddrs(jobs[j]) :
        (a < 0 \/ a >= jobs[j].jobSize) =>
            /\ Demand =>
                 LET R == DemandResolve(DemandState, replacementAlgorithm, j, a)
                 IN  /\ R.outcome = "oob"
                     /\ R.frames = memoryFrames /\ R.jobs = jobs
                     /\ R.time = currentTime /\ R.queue = fifoQueue
            /\ variant = "static" => StaticResolve(jobs[j], a).outcome = "oob"
            /\ variant = "event" =>
                 EventResolve(memoryFrames, jobs[j], a).outcome = "oob"

\* C3: every frame is free or holds one (jobID, pageNumber) pair of a job's
\* page, and no pair is held by two frames, in each of the three programs.
C3_FramesHoldDistinctPairs ==
    /\ \A f \in FrameIdx :
          IF memoryFrames[f].isFree
          THEN memoryFrames[f].jobID = -1 /\ memoryFrames[f].pageNumber = -1
          ELSE /\ memoryFrames[f].jobID \in DOMAIN jobs
               /\ memoryFrames[f].pageNumber \in SeqSet(jobs[memoryFrames[f].jobID].pages)
    /\ \A f, g \in FrameIdx :
          (f # g /\ ~memoryFrames[f].isFree /\ ~memoryFrames[g].isFree)
             => Pair(memoryFrames, f) # Pair(memoryFrames, g)

\* C4: after loadPage(job, p), from any reachable state and under either
\* policy, p is in job.loadedPages and job.pageTable[p] is the ID of an
\* occupied frame holding (job.jobID, p).
C4_LoadPageInstalls ==
    Demand =>
      \A j \in DOMAIN jobs : \A p \in SeqSet(jobs[j].pages) :
        LET R == LoadPage(DemandState, replacementAlgorithm, j, p)
        IN  /\ p \in R.jobs[j].loadedPages
            /\ p \in DOMAIN R.jobs[j].pageTable
            /\ LET f == R.jobs[j].pageTable[p]
               IN  /\ f \in DOMAIN R.frames
                   /\ ~R.frames[f].isFree
                   /\ R.frames[f].frameID = f
                   /\ R.frames[f].jobID = jobs[j].jobID
                   /\ R.frames[f].pageNumber = p

\* loadPage has served hits, free-frame faults and evictions, and the policy
\* has been switched to LRU
C4_Witness ==
    /\ Demand /\ replacementAlgorithm = 2
    /\ FindFreeFrame(memoryFrames) = -1
    /\ TotalFaults > NumFramesDemand
    /\ fifoQueue # <<>>

\* C5: under FIFO from empty memory with k frames, k+1 distinct pages and then
\* the first page again fault on every reference: after the (k+1)-th
\* reference the first page is no longer resident.
C5_FifoRunFaultsEveryTime ==
    (Demand /\ fifoRun.clean) =>
        /\ TotalFaults = Len(fifoRun.refs)
        /\ Len(fifoRun.refs) = NumFramesDemand + 1 =>
              LET first == fifoRun.refs[1]
              IN  /\ first[2] \notin jobs[first[1]].loadedPages
                  /\ ~LoadPage(DemandState, replacementAlgorithm, first[1], first[2]).hit

C5_Witness ==
    /\ Demand /\ fifoRun.clean
    /\ Len(fifoRun.refs) = NumFramesDemand + 2
    /\ TotalFaults = NumFramesDemand + 2

\* C6: an access to a resident page changes no job's pageFaults; an access to
\* a non-resident page adds exactly 1 to the accessing job's pageFaults and
\* changes no other job's.
FaultsCounted(js, j, p) ==
    \A i \in DOMAIN jobs :
        js[i].pageFaults =
            jobs[i].pageFaults
              + (IF i = j /\ p \notin jobs[j].loadedPages THEN 1 ELSE 0)

C6_FaultCounting ==
    Demand =>
      \A j \in DOMAIN jobs :
        /\ \A p \in SeqSet(jobs[j].pages) :
              FaultsCounted(LoadPage(DemandState, replacementAlgorithm, j, p).jobs, j, p)
        /\ \A a \in 0 .. (jobs[j].jobSize - 1) :
              FaultsCounted(DemandResolve(DemandState, replacementAlgorithm, j, a).jobs,
                            j, a \div PageSize)

\* both jobs have faulted, a page has been evicted, and the page in frame 0
\* belongs to job 1 while job 2 is about to fault
C6_Witness ==
    /\ Demand
    /\ jobs[1].pageFaults >= 1 /\ jobs[2].pageFaults >= 1
    /\ TotalFaults > NumFramesDemand
    /\ \E f \in FrameIdx : memoryFrames[f].jobID = 1
    /\ jobs[2].loadedPages = {}

\* every result assignPageFrames can give for job j from the current state
AssignResults(j) ==
    IF variant = "event" THEN EventAssignPageFrames(memoryFrames, jobs[j])
    ELSE StaticAssignPageFrames(memoryFrames, jobs[j])

\* C7: when assignPageFrames(job) succeeds, the free frames decrease by
\* job.pages.size(), every page has a pageTable entry, distinct pages name
\* distinct frames, and each named frame was free before the call.
C7_AssignTakesDistinctFreeFrames ==
    variant \in {"event", "static"} =>
      \A j \in DOMAIN jobs : \A R \in AssignResults(j) :
        R.ok =>
          /\ FreeCount(R.frames) = FreeCount(memoryFrames) - Len(jobs[j].pages)
          /\ \A p \in SeqSet(jobs[j].pages) :
                /\ p \in DOMAIN R.pageTable
                /\ R.pageTable[p] \in FrameIdx
                /\ memoryFrames[R.pageTable[p]].isFree
                /\ ~R.frames[R.pageTable[p]].isFree
          /\ \A p, q \in SeqSet(jobs[j].pages) :
                p # q => R.pageTable[p] # R.pageTable[q]

\* a job of at least two pages has been allocated by the event program
C7_Witness ==
    /\ variant = "event"
    /\ \E j \in DOMAIN jobs :
          /\ Len(jobs[j].pages) >= 2
          /\ jobs[j].startTime # -1
          /\ DOMAIN jobs[j].pageTable = SeqSet(jobs[j].pages)
          /\ \A p \in SeqSet(jobs[j].pages) :
                Pair(memoryFrames, jobs[j].pageTable[p]) = <<j, p>>

\* C8: when fewer frames are free than the job has pages, assignPageFrames
\* fails and changes no frame and no pageTable entry.
C8_AssignFailureChangesNothing ==
    variant \in {"event", "static"} =>
      \A j \in DOMAIN jobs :
        FreeCount(memoryFrames) < Len(jobs[j].pages) =>
          \A R \in AssignResults(j) :
             ~R.ok /\ R.frames = memoryFrames /\ R.pageTable = jobs[j].pageTable

\* an allocation has failed while frames were free, and the job waits with
\* an empty page table
C8_Witness ==
    /\ variant = "event"
    /\ waitingQueue # <<>>
    /\ LET j == waitingQueue[Len(waitingQueue)]
       IN  /\ 0 < FreeCount(memoryFrames)
           /\ FreeCount(memoryFrames) < Len(jobs[j].pages)
           /\ jobs[j].pageTable = EmptyMap
           /\ ev = [time |-> jobs[j].arrivalTime, type |-> ARRIVAL, jobID |-> j]

\* job j is allocated by this step
Started(j) == jobs[j].startTime = -1 /\ jobs'[j].startTime # -1

\* exactly two jobs, both arriving at t = 0, each fitting alone but not both
TwoJobScenario ==
    /\ DOMAIN jobs = {1, 2}
    /\ jobs[1].arrivalTime = 0 /\ jobs[2].arrivalTime = 0
    /\ Len(jobs[1].pages) <= NumFramesEvent /\ Len(jobs[2].pages) <= NumFramesEvent
    /\ Len(jobs[1].pages) + Len(jobs[2].pages) > NumFramesEvent

\* C9: a job whose allocation fails at its Arrival goes to the back of the
\* waiting queue, and a waiting job is allocated only inside the processing
\* of a Completion event, at that event's time.  With two jobs arriving at
\* t = 0 and frames for one, the second is allocated exactly at the first
\* job's completion time, its duration.
C9_WaitingAllocatedOnlyAtCompletion ==
    [][variant = "event" =>
        /\ \A j \in DOMAIN jobs :
              (ev' # ev /\ ev' = [time |-> jobs[j].arrivalTime, type |-> ARRIVAL, jobID |-> j]
                 /\ FreeCount(memoryFrames) < Len(jobs[j].pages))
              => /\ waitingQueue' = Append(waitingQueue, j)
                 /\ jobs'[j].startTime = -1
        /\ \A j \in SeqSet(waitingQueue) :
              Started(j) => /\ pc = "retry"
                            /\ ev.type = COMPLETE /\ ev.time = currentTime
                            /\ jobs'[j].startTime = currentTime
        /\ TwoJobScenario =>
              \A x, y \in DOMAIN jobs :
                 x # y =>
                   /\ (y \in SeqSet(waitingQueue) /\ Started(y))
                         => /\ jobs[x].startTime = 0
                            /\ jobs'[y].startTime = jobs[x].duration
                   /\ (pc' = "done" /\ jobs'[x].startTime = 0
                         /\ jobs[x].duration <= MaxTimeUnits)
                         => jobs'[y].startTime \in {0, jobs[x].duration}
      ]_vars

\* two jobs arrived at t = 0, one waited and was allocated at t = 1, the
\* other's completion time
C9_Witness ==
    /\ variant = "event" /\ TwoJobScenario
    /\ \E x, y \in DOMAIN jobs :
          /\ x # y
          /\ jobs[x].startTime = 0 /\ jobs[x].duration = 1
          /\ jobs[y].startTime = 1
          /\ ev = [time |-> 1, type |-> COMPLETE, jobID |-> x]

\* C10: events are processed in non-decreasing order of their time, and at
\* equal times no Arrival is processed after a Completion.
C10_EventsInOrder ==
    [][(variant = "event" /\ ev' # ev /\ ev # NoEvent) =>
          \/ ev.time < ev'.time
          \/ ev.time = ev'.time /\ ~(ev.type = COMPLETE /\ ev'.type = ARRIVAL)]_vars

\* a Completion scheduled during a tick (duration 0) has been processed in
\* the same tick, in which another job arrived too
C10_Witness ==
    /\ variant = "event"
    /\ ev.type = COMPLETE
    /\ jobs[ev.jobID].duration = 0
    /\ ev.time = currentTime
    /\ \E j \in DOMAIN jobs : j # ev.jobID /\ jobs[j].arrivalTime = ev.time

\* a waiting job that can never be allocated: more pages than frames
NeverFits(j) == Len(jobs[j].pages) > Cardinality(DOMAIN memoryFrames)

\* C11: runSimulator terminates for every job set and tick bound: every run
\* of the event program reaches the end of the loop; it ends only with both
\* queues empty or with the clock past the tick bound, it ends at the first
\* tick that finds both queues empty, and the clock never passes the bound
\* by more than one, also when a waiting job can never be allocated.
C11_RunSimulatorTerminates ==
    /\ <>(pc = "done")
    /\ [](pc = "done" =>
            \/ pq = {} /\ waitingQueue = <<>>
            \/ currentTime > MaxTimeUnits)
    /\ [](currentTime <= MaxTimeUnits + 1)
    /\ [][pc = "events" /\ pq = {} /\ waitingQueue = <<>> => pc' = "done"]_vars

\* the simulation was stopped by the tick bound with a job still waiting
\* that needs more frames than the memory has
C11_Witness ==
    /\ variant = "event" /\ pc = "done"
    /\ currentTime > MaxTimeUnits
    /\ \E i \in 1..Len(waitingQueue) : NeverFits(waitingQueue[i])

\* the parts of a translation as the claim gives them, for an address
\* inside the job: page number, offset, and the physical address in frame f
Translation(frames, job, addr, f) ==
    [pageNumber |-> addr \div job.pageSize, offset |-> addr % job.pageSize,
     frameNumber |-> f,
     physical |-> f * frames[f].frameSize + (addr % job.pageSize)]

Parts(R) ==
    [pageNumber |-> R.pageNumber, offset |-> R.offset,
     frameNumber |-> R.frameNumber, physical |-> R.physical]

\* C12: for every job and every address in [0, jobSize) whose page is
\* resident when the address is computed (in the demand program: after the
\* fault has loaded it), resolveAddress yields pageNumber = addr div
\* pageSize, offset = addr mod pageSize with 0 <= offset < pageSize, the
\* frame the page table gives for that page, and physicalAddress = frame *
\* (size of that frame) + offset.
C12_ResolveAddressTranslates ==
    /\ Demand =>
         \A j \in DemandJobIDs : \A addr \in 0..(jobs[j].jobSize - 1) :
            LET R  == DemandResolve(DemandState, replacementAlgorithm, j, addr)
                pn == addr \div jobs[j].pageSize
            IN  /\ R.outcome = "resolved"
                /\ pn \in DOMAIN R.jobs[j].pageTable
                /\ R.jobs[j].pageTable[pn] \in DOMAIN R.frames
                /\ Parts(R) = Translation(R.frames, jobs[j], addr,
                                          R.jobs[j].pageTable[pn])
                /\ R.offset >= 0 /\ R.offset < jobs[j].pageSize
    /\ variant = "event" =>
         \A j \in DOMAIN jobs : \A addr \in 0..(jobs[j].jobSize - 1) :
            LET R  == EventResolve(memoryFrames, jobs[j], addr)
                pn == addr \div jobs[j].pageSize
            IN  pn \in DOMAIN jobs[j].pageTable =>
                  /\ R.outcome = "resolved"
                  /\ jobs[j].pageTable[pn] \in DOMAIN memoryFrames
                  /\ Parts(R) = Translation(memoryFrames, jobs[j], addr,
                                            jobs[j].pageTable[pn])
                  /\ R.offset >= 0 /\ R.offset < jobs[j].pageSize

\* the event program's address demo, reached with a page still resident in
\* a frame other than frame 0, for an address with a non-zero offset
C12_Witness ==
    /\ variant = "event" /\ pc = "done"
    /\ \E j \in DOMAIN jobs : \E addr \in 0..(jobs[j].jobSize - 1) :
          LET R == EventResolve(memoryFrames, jobs[j], addr)
          IN  R.outcome = "resolved" /\ R.frameNumber > 0 /\ R.offset > 0

\* ceil(size / pageSize) for size >= 0 and pageSize > 0
CeilDiv(size, pageSize) == (size + pageSize - 1) \div pageSize

\* the latest call of divideJobIntoPages was made on a Job without pages
\* (as importJobsFromFile makes it) with a positive page size
DividedFresh ==
    /\ pc = "import" /\ simIdx >= 1
    /\ jobs[0].pages = <<>> /\ jobs[0].pageSize > 0

\* C13: for size >= 0 and pageSize > 0, divideJobIntoPages (event and static
\* programs) produces exactly the pages 0..ceil(size/pageSize)-1, none for
\* size 0; internalFragmentation is 0 exactly when size mod pageSize = 0
\* and otherwise pageSize - (size mod pageSize), strictly between 0 and
\* pageSize.
C13_DivideJobIntoPages ==
    (DividedFresh /\ variant \in {"event", "static"}) =>
        LET size == jobs[0].jobSize
            ps   == jobs[0].pageSize
            frag == jobs[1].internalFragmentation
        IN  /\ jobs[1].pages = [i \in 1..CeilDiv(size, ps) |-> i - 1]
            /\ (size = 0) => jobs[1].pages = <<>>
            /\ (frag = 0) <=> (size % ps = 0)
            /\ (size % ps # 0) =>
                    frag = ps - (size % ps) /\ 0 < frag /\ frag < ps

\* the static program has divided a fresh job whose last page is partly
\* used, and whose internalFragmentation held something else before
C13_Witness ==
    /\ DividedFresh /\ variant = "static"
    /\ Len(jobs[1].pages) >= 2
    /\ jobs[1].internalFragmentation > 1
    /\ jobs[0].internalFragmentation # jobs[1].internalFragmentation

\* C14: in the demand program, in every reachable state and for every job,
\* the keys of job.pageTable are exactly job.loadedPages (after faults
\* served from free frames, evictions of the job's own pages, evictions
\* caused by other jobs, and policy switches), and every call of loadPage
\* from such a state keeps it so.
C14_PageTableKeysAreLoadedPages ==
    Demand =>
        /\ \A j \in DemandJobIDs : DOMAIN jobs[j].pageTable = jobs[j].loadedPages
        /\ \A j \in DemandJobIDs : \A p \in SeqSet(jobs[j].pages) :
              LET R == LoadPage(DemandState, replacementAlgorithm, j, p)
              IN  \A k \in DemandJobIDs :
                     DOMAIN R.jobs[k].pageTable = R.jobs[k].loadedPages

\* after a policy switch and more faults than there are frames, job 2's
\* page is resident and a page of job 1 has been evicted again
C14_Witness ==
    /\ Demand /\ replacementAlgorithm = 2
    /\ TotalFaults > NumFramesDemand
    /\ jobs[2].loadedPages # {}
    /\ jobs[1].pageFaults >= 2
    /\ \E p \in SeqSet(jobs[1].pages) : p \notin jobs[1].loadedPages
    /\ jobs[1].loadedPages # {}

\* the frames job j owns
OwnedBy(frames, j) == {i \in DOMAIN frames : ~frames[i].isFree /\ frames[i].jobID = j}

\* the step pops a Completion event (each job has at most one in the queue)
PopsCompletion(e) == e \in pq /\ e \notin pq' /\ e.type = COMPLETE

\* C15: when a Completion event for job J is processed, J owns no frame
\* afterwards and its pageTable is empty, and the frames other jobs held
\* before the event are unchanged, also through the retries of the waiting
\* jobs that follow; freeJobFrames for a job that owns no frame changes
\* nothing.
C15_CompletionFreesOnlyItsJob ==
    /\ [][\A e \in pq : PopsCompletion(e) =>
            /\ OwnedBy(memoryFrames', e.jobID) = {}
            /\ jobs'[e.jobID].pageTable = EmptyMap
            /\ \A i \in DOMAIN memoryFrames :
                  i \notin OwnedBy(memoryFrames, e.jobID) =>
                      memoryFrames'[i] = memoryFrames[i]
            /\ \A j \in DOMAIN jobs \ {e.jobID} : jobs'[j] = jobs[j]]_vars
    /\ [][pc = "retry" =>
            /\ OwnedBy(memoryFrames', ev.jobID) = {}
            /\ jobs'[ev.jobID].pageTable = EmptyMap
            /\ \A i \in DOMAIN memoryFrames :
                  ~memoryFrames[i].isFree => memoryFrames'[i] = memoryFrames[i]]_vars
    /\ [](variant = "event" =>
            \A j \in DOMAIN jobs \cup {-1, 0} :
                OwnedBy(memoryFrames, j) = {} =>
                    FreeJobFrames(memoryFrames, j) = memoryFrames)

\* a Completion has just been processed while another job was running:
\* the completed job's frames are free, the other job's frame is not, and
\* a job is waiting
C15_Witness ==
    /\ variant = "event" /\ pc = "retry" /\ retryLeft = Len(waitingQueue)
    /\ ev.type = COMPLETE
    /\ Len(jobs[ev.jobID].pages) > 0
    /\ \E i \in DOMAIN memoryFrames : ~memoryFrames[i].isFree
    /\ \E i \in DOMAIN memoryFrames : memoryFrames[i].isFree

\* inside the retry loop with r iterations left, the queue holds the r jobs
\* not yet attempted followed by the jobs re-enqueued so far; this is the
\* order the jobs still queued had before the Completion event
OrderBefore(queue, r) ==
    SubSeq(queue, r + 1, Len(queue)) \o SubSeq(queue, 1, r)

Fits(j) == Len(jobs[j].pages) <= Cardinality(FreeIndices(memoryFrames))

\* C16: at a Completion event every job waiting at that moment is attempted
\* exactly once, in queue order (the attempt takes the head of the jobs not
\* yet attempted); a job that fits at its turn is allocated and leaves the
\* queue, one that does not fit stays; the jobs still queued keep the
\* relative order they had before the event, and when the loop ends every
\* job has had its turn.
C16_RetryInQueueOrder ==
    /\ [][\A e \in pq : PopsCompletion(e) =>
            /\ retryLeft' = Len(waitingQueue) /\ waitingQueue' = waitingQueue
            /\ (pc' = "retry") <=> (waitingQueue # <<>>)]_vars
    /\ [][pc = "retry" =>
            LET jid == Head(waitingQueue)
                was == OrderBefore(waitingQueue, retryLeft)
                now == OrderBefore(waitingQueue', retryLeft')
            IN  /\ retryLeft >= 1 /\ retryLeft <= Len(waitingQueue)
                /\ retryLeft' = retryLeft - 1
                /\ (pc' = "retry") <=> (retryLeft' > 0)
                /\ IF Fits(jid)
                   THEN /\ now = SeqRemove(was, jid)
                        /\ jobs'[jid].startTime = currentTime
                        /\ DOMAIN jobs'[jid].pageTable = SeqSet(jobs[jid].pages)
                        /\ OwnedBy(memoryFrames', jid) # {}
                   ELSE /\ now = was
                        /\ jobs'[jid] = jobs[jid]
                        /\ memoryFrames' = memoryFrames]_vars

\* the retry loop has attempted a job that did not fit and re-enqueued it
\* behind the job that is attempted next
C16_Witness ==
    /\ variant = "event" /\ pc = "retry"
    /\ Len(waitingQueue) = 2 /\ retryLeft = 1
    /\ ~Fits(waitingQueue[2])

\* the page of addr is mapped, and its frame is outside the frame table or
\* smaller than the offset needs
BadMapping(frames, job, addr) ==
    LET pn == addr \div job.pageSize
    IN  /\ pn \in DOMAIN job.pageTable
        /\ \/ job.pageTable[pn] \notin DOMAIN frames
           \/ addr % job.pageSize >= frames[job.pageTable[pn]].frameSize

C18_DivideIdempotent ==
    (pc = "import" /\ simIdx >= 2) =>
        /\ jobs[1].pages = jobs[0].pages
        /\ jobs[1].internalFragmentation = jobs[0].internalFragmentation

C20_SwitchChangesSelectorOnly ==
    [][replacementAlgorithm' # replacementAlgorithm =>
          /\ replacementAlgorithm \in {1, 2} /\ replacementAlgorithm' \in {1, 2}
          /\ fifoQueue' = fifoQueue
          /\ memoryFrames' = memoryFrames
          /\ currentTime' = currentTime
          /\ jobs' = jobs]_vars

\* LRU is the active policy while the FIFO queue still lists every frame,
\* filled under FIFO before the switch
C20_Witness ==
    /\ Demand /\ replacementAlgorithm = 2
    /\ Len(fifoQueue) = NumFramesDemand
    /\ \A i \in DOMAIN memoryFrames : ~memoryFrames[i].isFree
    /\ currentTime >= NumFramesDemand

\* no frame of the table is free
MemoryFull == \A i \in DOMAIN memoryFrames : ~memoryFrames[i].isFree

\* the frames whose accessTime is the minimum over the whole table
OldestFrames(frames) ==
    {i \in DOMAIN frames : \A k \in DOMAIN frames :
        frames[i].accessTime <= frames[k].accessTime}

\* the lowest index of a non-empty set of frame indices
LowestIndex(F) == CHOOSE i \in F : \A k \in F : i <= k

\* C21: whenever loadPage consults the LRU policy (a fault with no free
\* frame while LRU is selected), the frame it replaces is the one with the
\* minimum accessTime over all frames of the table, whichever job owns it,
\* and the lowest-indexed one when several frames share that minimum.
C21_LruVictimIsOldestLowestIndex ==
    (MemoryFull /\ replacementAlgorithm = 2) =>
        \A j \in DemandJobIDs : \A p \in SeqSet(jobs[j].pages) :
            LET R == LoadPage(DemandState, 2, j, p)
            IN  ~R.hit =>
                  /\ R.touched = LowestIndex(OldestFrames(memoryFrames))
                  /\ LruReplacement(memoryFrames, currentTime + 1) = R.touched
                  /\ \A i \in DOMAIN memoryFrames :
                        i # R.touched => R.frames[i] = memoryFrames[i]

\* memory is full under LRU, a page is not resident (the next reference to
\* it consults the policy), and two frames share the minimal accessTime
C21_Witness ==
    /\ variant = "demand" /\ MemoryFull /\ replacementAlgorithm = 2
    /\ \E j \in DemandJobIDs : \E p \in SeqSet(jobs[j].pages) :
          p \notin jobs[j].loadedPages
    /\ Cardinality(OldestFrames(memoryFrames)) >= 2

\* some page of some job is not resident: a reference to it is a fault
SomePageOut ==
    \E j \in DemandJobIDs : \E p \in SeqSet(jobs[j].pages) :
        p \notin jobs[j].loadedPages

\* C22: under FIFO the victim of a fault with no free frame is the frame
\* index at the head of the FIFO queue, which leaves the queue, or frame 0
\* when the queue is empty; the frame index of an installed page is
\* appended to the queue exactly when FIFO is the active policy, and a hit
\* (through loadPage or resolveAddress) leaves the queue alone.
C22_FifoVictimAndQueue ==
    variant = "demand" =>
      \A j \in DemandJobIDs : \A p \in SeqSet(jobs[j].pages) :
        LET R == LoadPage(DemandState, replacementAlgorithm, j, p)
            A == DemandResolve(DemandState, replacementAlgorithm, j,
                               p * jobs[j].pageSize)
        IN  /\ R.hit => R.queue = fifoQueue /\ A.queue = fifoQueue
            /\ (~R.hit /\ replacementAlgorithm = 2) => R.queue = fifoQueue
            /\ (~R.hit /\ replacementAlgorithm = 1 /\ ~MemoryFull) =>
                    R.queue = Append(fifoQueue, R.touched)
            /\ (~R.hit /\ replacementAlgorithm = 1 /\ MemoryFull) =>
                    IF fifoQueue = <<>>
                    THEN R.touched = 0 /\ R.queue = <<0>>
                    ELSE /\ R.touched = Head(fifoQueue)
                         /\ R.queue = Append(Tail(fifoQueue), Head(fifoQueue))

\* FIFO is about to choose a victim: memory is full, a page is not resident,
\* and the head of the queue is not frame 0
C22_Witness ==
    /\ variant = "demand" /\ replacementAlgorithm = 1
    /\ MemoryFull /\ SomePageOut
    /\ fifoQueue # <<>> /\ Head(fifoQueue) # 0

\* the free frames of a frame table
FreeFrames(frames) == {i \in DOMAIN frames : frames[i].isFree}

\* C23: a page fault evicts a resident page only when no frame is free:
\* while at least one frame is free, loadPage installs the new page in the
\* lowest-indexed free frame, every other frame stays as it is, and no
\* page leaves any job's loadedPages or pageTable (the faulting job gains
\* the new page).
C23_NoEvictionWhileFrameFree ==
    (variant = "demand" /\ ~MemoryFull) =>
      \A j \in DemandJobIDs : \A p \in SeqSet(jobs[j].pages) :
        LET R == LoadPage(DemandState, replacementAlgorithm, j, p)
            f == LowestIndex(FreeFrames(memoryFrames))
        IN  ~R.hit =>
              /\ R.touched = f
              /\ ~R.frames[f].isFree
              /\ R.frames[f].jobID = jobs[j].jobID /\ R.frames[f].pageNumber = p
              /\ \A i \in DOMAIN memoryFrames : i # f => R.frames[i] = memoryFrames[i]
              /\ \A k \in DemandJobIDs :
                    /\ jobs[k].loadedPages \subseteq R.jobs[k].loadedPages
                    /\ \A q \in DOMAIN jobs[k].pageTable :
                          /\ q \in DOMAIN R.jobs[k].pageTable
                          /\ R.jobs[k].pageTable[q] = jobs[k].pageTable[q]
              /\ R.jobs[j].loadedPages = jobs[j].loadedPages \cup {p}

\* a fault is possible while frame 0 is occupied and a later frame is free,
\* under either policy with a non-empty FIFO queue
C23_Witness ==
    /\ variant = "demand" /\ SomePageOut
    /\ ~memoryFrames[0].isFree /\ ~MemoryFull
    /\ fifoQueue # <<>>

\* what a hit on frame f may change: its accessTime and its referenced bit
HitOn(frames, f, time) ==
    [frames EXCEPT ![f] = [@ EXCEPT !.accessTime = time, !.referenced = TRUE]]

\* C24: a page hit, through loadPage or through resolveAddress on a
\* resident page, changes only the accessTime and the referenced bit of
\* the frame holding the page, and through resolveAddress the clock: no
\* frame changes owner, page number or free flag, and the FIFO queue and
\* every job (pageTable, loadedPages) are unchanged.
C24_HitFrameEffect ==
    variant = "demand" =>
      \A j \in DemandJobIDs : \A p \in jobs[j].loadedPages :
        LET R == LoadPage(DemandState, replacementAlgorithm, j, p)
            A == DemandResolve(DemandState, replacementAlgorithm, j,
                               p * jobs[j].pageSize)
            f == FrameHolding(memoryFrames, jobs[j].jobID, p)
        IN  /\ f \in DOMAIN memoryFrames
            /\ R.hit /\ R.touched = f
            /\ R.frames = HitOn(memoryFrames, f, currentTime)
            /\ R.jobs = jobs /\ R.queue = fifoQueue /\ R.time = currentTime
            /\ A.outcome = "resolved"
            /\ A.frames = HitOn(memoryFrames, f, currentTime)
            /\ A.jobs = jobs /\ A.queue = fifoQueue /\ A.time = currentTime + 1

\* a hit is possible on a page in a frame other than frame 0, whose
\* accessTime is older than the clock, while the FIFO queue is not empty
C24_Witness ==
    /\ variant = "demand" /\ fifoQueue # <<>>
    /\ \E j \in DemandJobIDs : \E p \in jobs[j].loadedPages :
          LET f == FrameHolding(memoryFrames, jobs[j].jobID, p)
          IN  f > 0 /\ memoryFrames[f].accessTime < currentTime

\* the Completion events of job j waiting in the event queue
CompletionsOf(q, j) == {e \in q : e.type = COMPLETE /\ e.jobID = j}

\* C25: in the event simulator every job that is allocated, at its Arrival
\* or from the waiting queue, gets startTime = the tick of allocation and
\* exactly one Completion event, at startTime + duration; for non-negative
\* durations its frames are released at exactly tick startTime + duration:
\* not before that Completion is popped, and within the tick bound not
\* later than that tick.
C25_CompletionAtStartPlusDuration ==
    /\ [][\A j \in DOMAIN jobs :
            /\ Started(j) =>
                  /\ jobs'[j].startTime = currentTime
                  /\ OwnedBy(memoryFrames, j) = {}
                  /\ Cardinality(OwnedBy(memoryFrames', j)) = Len(jobs[j].pages)
                  /\ CompletionsOf(pq, j) = {}
                  /\ CompletionsOf(pq', j) =
                        {[time |-> currentTime + jobs[j].duration, type |-> COMPLETE,
                          jobID |-> j]}
            /\ (OwnedBy(memoryFrames, j) # {} /\ OwnedBy(memoryFrames', j) = {}) =>
                  /\ \E e \in CompletionsOf(pq, j) : PopsCompletion(e)
                  /\ currentTime = jobs[j].startTime + jobs[j].duration
                  /\ currentTime' = currentTime
            /\ (\E e \in pq : e.jobID = j /\ PopsCompletion(e)) =>
                  /\ OwnedBy(memoryFrames', j) = {}
                  /\ CompletionsOf(pq', j) = {}]_vars
    /\ [](variant = "event" =>
            \A j \in DOMAIN jobs :
               /\ Cardinality(CompletionsOf(pq, j)) <= 1
               /\ \A e \in CompletionsOf(pq, j) :
                     e.time = jobs[j].startTime + jobs[j].duration
               /\ (OwnedBy(memoryFrames, j) # {}
                      /\ jobs[j].startTime + jobs[j].duration <= MaxTimeUnits) =>
                     currentTime <= jobs[j].startTime + jobs[j].duration)

\* a job that waited has started later than it arrived, ran for a positive
\* duration, and its Completion has released its frames
C25_Witness ==
    /\ variant = "event" /\ ev.type = COMPLETE
    /\ jobs[ev.jobID].startTime > jobs[ev.jobID].arrivalTime
    /\ jobs[ev.jobID].duration > 0
    /\ currentTime = jobs[ev.jobID].startTime + jobs[ev.jobID].duration
    /\ OwnedBy(memoryFrames, ev.jobID) = {}

\* page tables and frame table agree: pageTable[p] = f exactly when frame f
\* is occupied by page p of that job (and loadedPages are the mapped pages)
TablesAgree(frames, js) ==
    \A j \in DOMAIN js :
        /\ \A p \in DOMAIN js[j].pageTable :
              LET f == js[j].pageTable[p]
              IN  /\ f \in DOMAIN frames
                  /\ ~frames[f].isFree
                  /\ frames[f].jobID = js[j].jobID /\ frames[f].pageNumber = p
        /\ \A f \in DOMAIN frames :
              (~frames[f].isFree /\ frames[f].jobID = js[j].jobID) =>
                 /\ frames[f].pageNumber \in DOMAIN js[j].pageTable
                 /\ js[j].pageTable[frames[f].pageNumber] = f
        /\ js[j].loadedPages = DOMAIN js[j].pageTable

\* C26: in the demand program the job page tables and the frame table
\* agree in every reachable state (job IDs are unique): pageTable[p] = f if
\* and only if frame f is occupied with that job's ID and page number p;
\* every loadPage keeps it so, and an eviction removes the page from its
\* owner's pageTable and loadedPages also when the owner is not the job
\* that faulted.
C26_PageTablesAgreeWithFrames ==
    variant = "demand" =>
      /\ TablesAgree(memoryFrames, jobs)
      /\ \A f \in DOMAIN memoryFrames :
            ~memoryFrames[f].isFree => memoryFrames[f].jobID \in DemandJobIDs
      /\ \A j \in DemandJobIDs : \A p \in SeqSet(jobs[j].pages) :
            LET R == LoadPage(DemandState, replacementAlgorithm, j, p)
                v == R.touched
            IN  /\ TablesAgree(R.frames, R.jobs)
                /\ (~R.hit /\ MemoryFull) =>
                      LET o == memoryFrames[v].jobID
                          q == memoryFrames[v].pageNumber
                      IN  (o # j \/ q # p) =>
                            /\ q \notin R.jobs[o].loadedPages
                            /\ q \notin DOMAIN R.jobs[o].pageTable

\* job 2's only page has been loaded and then evicted by a fault of job 1,
\* whose pages fill the memory
C26_Witness ==
    /\ variant = "demand" /\ MemoryFull
    /\ jobs[2].pageFaults >= 1 /\ jobs[2].loadedPages = {}
    /\ \A f \in DOMAIN memoryFrames : memoryFrames[f].jobID = 1

\* the occupied frames of a frame table
OccupiedFrames(frames) == {i \in DOMAIN frames : ~frames[i].isFree}

\* a sequence without repetitions
NoDuplicates(q) == \A a, b \in DOMAIN q : q[a] = q[b] => a = b

\* C27: while FIFO has been the active policy at every fault since
\* initFrames, the FIFO queue lists exactly the occupied frame indices, each
\* once, in the order in which their current pages were installed; so the
\* victim of a FIFO fault with no free frame is the frame whose page has
\* been resident longest.
C27_FifoQueueIsInstallOrder ==
    (variant = "demand" /\ installOrder.fifoOnly) =>
      /\ fifoQueue = installOrder.order
      /\ SeqSet(fifoQueue) = OccupiedFrames(memoryFrames)
      /\ NoDuplicates(fifoQueue)
      /\ (replacementAlgorithm = 1 /\ MemoryFull) =>
            \A j \in DemandJobIDs : \A p \in SeqSet(jobs[j].pages) :
              LET R == LoadPage(DemandState, replacementAlgorithm, j, p)
              IN  ~R.hit =>
                    /\ R.touched = Head(installOrder.order)
                    /\ R.queue = Append(Tail(installOrder.order), R.touched)

\* every fault so far was served under FIFO, pages have been evicted, and
\* the page resident longest is not the least recently accessed one: it
\* sits in a frame other than 0 and was accessed after another frame
C27_Witness ==
    /\ variant = "demand" /\ installOrder.fifoOnly /\ replacementAlgorithm = 1
    /\ MemoryFull /\ SomePageOut
    /\ TotalFaults > NumFramesDemand
    /\ Head(fifoQueue) # 0
    /\ \E g \in DOMAIN memoryFrames :
          memoryFrames[g].accessTime < memoryFrames[Head(fifoQueue)].accessTime

\* a FIFO queue is well formed for a frame table: its entries are indices
\* of occupied frames, none twice, and it is no longer than the table
QueueWellFormed(queue, frames) ==
    /\ SeqSet(queue) \subseteq OccupiedFrames(frames)
    /\ NoDuplicates(queue)
    /\ Len(queue) <= Cardinality(DOMAIN frames)

\* C28: after any sequence of page accesses and switches between FIFO and
\* LRU, every entry of the FIFO queue is the index of an occupied frame, no
\* index appears in it twice, and it is no longer than the number of
\* frames; the same holds after one more loadPage of any page.
C28_FifoQueueWellFormed ==
    variant = "demand" =>
      /\ QueueWellFormed(fifoQueue, memoryFrames)
      /\ \A j \in DemandJobIDs : \A p \in SeqSet(jobs[j].pages) :
            LET R == LoadPage(DemandState, replacementAlgorithm, j, p)
            IN  QueueWellFormed(R.queue, R.frames)

\* the policy has been switched both ways: a frame was filled under LRU (it
\* is occupied but not in the queue), FIFO is active again with a queue that
\* is not empty, memory is full and the next fault will evict
C28_Witness ==
    /\ variant = "demand" /\ replacementAlgorithm = 1
    /\ ~installOrder.fifoOnly
    /\ MemoryFull /\ SomePageOut
    /\ fifoQueue # <<>>
    /\ Len(fifoQueue) < Cardinality(OccupiedFrames(memoryFrames))

\* the job IDs of a job list
JobIDs(js) == {js[i].jobID : i \in DOMAIN js}

\* C29: in every reachable state of the event simulator, a job that has
\* been allocated and whose Completion is still pending owns exactly
\* pages.size() frames, and any other job owns none; a job has at most one
\* Completion pending, is at most once in the waiting queue, and is not in
\* the waiting queue while it owns frames or has a Completion pending.
C29_OwnershipFollowsAllocation ==
    variant = "event" =>
      /\ \A id \in JobIDs(jobs) :
            LET job  == jobs[JobMap(jobs, id)]
                held == OwnedBy(memoryFrames, id)
            IN  /\ IF job.startTime # -1 /\ CompletionsOf(pq, id) # {}
                   THEN Cardinality(held) = Len(job.pages)
                   ELSE held = {}
                /\ Cardinality(CompletionsOf(pq, id)) <= 1
      /\ NoDuplicates(waitingQueue)
      /\ \A q \in DOMAIN waitingQueue :
            /\ OwnedBy(memoryFrames, waitingQueue[q]) = {}
            /\ CompletionsOf(pq, waitingQueue[q]) = {}

\* a job is allocated at most once: startTime is set only while it is -1
C29_AllocatedOnce ==
    [][\A i \in DOMAIN jobs :
          jobs'[i].startTime # jobs[i].startTime => jobs[i].startTime = -1]_vars

\* job j has been allocated and, after that, its Completion has been
\* processed: the event is gone and the job's frames are free again
Completed(j) ==
    /\ jobs[j].startTime # -1
    /\ CompletionsOf(pq, j) = {}
    /\ OwnedBy(memoryFrames, j) = {}

\* every job with no more pages than there are frames has completed
FittingJobsCompleted ==
    \A j \in DOMAIN jobs : ~NeverFits(j) => Completed(j)

\* C30: in the event simulator with unique job IDs, arrival times and
\* durations that are not negative, and a tick bound that does not cut the
\* run short, every job with no more pages than there are frames is
\* eventually allocated, and after that completed, whichever other jobs
\* arrive, wait, or never fit.  (A job that has completed stays so, so the
\* jobs that fit have eventually all completed.)
C30_FittingJobsComplete ==
    <>(variant = "event" /\ FittingJobsCompleted)

\* a job that has completed stays completed
C30_CompletedStays ==
    [][\A j \in DOMAIN jobs : Completed(j) => Completed(j)']_vars

\* a job that fits has had to wait (it started after it arrived) and has
\* completed, while a job that never fits is still in the waiting queue
C30_Witness ==
    /\ variant = "event"
    /\ \E j, k \in DOMAIN jobs :
          /\ ~NeverFits(j) /\ Completed(j)
          /\ jobs[j].startTime > jobs[j].arrivalTime
          /\ NeverFits(k) /\ k \in SeqSet(waitingQueue)

\* runSimulator has returned with nothing left to do: the event queue and
\* the waiting queue are both empty
EndedWithEmptyQueues ==
    variant = "event" /\ pc = "done" /\ pq = {} /\ waitingQueue = <<>>

\* C31: whenever runSimulator ends because the event queue and the waiting
\* queue are both empty (and not because the tick bound was reached), every
\* frame is free and every job's pageTable is empty.
C31_EmptyQueuesLeaveMemoryFree ==
    EndedWithEmptyQueues =>
      /\ \A i \in DOMAIN memoryFrames :
            /\ memoryFrames[i].isFree
            /\ memoryFrames[i].jobID = -1
            /\ memoryFrames[i].pageNumber = -1
      /\ \A j \in DOMAIN jobs : jobs[j].pageTable = EmptyMap

\* the loop test ended the run before the tick bound: every job has run, a
\* job of more than one page among them, and one of them had to wait for
\* frames first
C31_Witness ==
    /\ EndedWithEmptyQueues
    /\ currentTime <= LongTimeUnits
    /\ \A j \in DOMAIN jobs : jobs[j].startTime # -1
    /\ \E j \in DOMAIN jobs : Len(jobs[j].pages) > 1
    /\ \E j \in DOMAIN jobs : jobs[j].startTime > jobs[j].arrivalTime
====
